---- MODULE Spec2Model ----
(***************************************************************************)
(* Solidity compile/audit tool server: the subprocess orchestration of     *)
(* src/index.js (stdio MCP server; src/unnamed/part_001 carries the same   *)
(* class) and of src/unnamed/part_000 (plain HTTP server).                 *)
(*                                                                         *)
(* Text (stdout, stderr, messages) is a sequence of one-character strings, *)
(* so that split, trim and includes are computed as the code computes      *)
(* them.  JavaScript values are tagged records [t |-> tag, v |-> payload]. *)
(***************************************************************************)
EXTENDS Integers, Sequences, FiniteSets, TLC

(***************************************************************************)
(* Bounds of the model.                                                    *)
(***************************************************************************)
\* number of invocation slots (requests that can be in flight together)
MaxInv == 2
\* number of distinct random suffixes fs.mkdtemp can draw
MaxTemp == 2
\* number of requests sent one after the other in a serial behaviour
MaxRequests == 1

(***************************************************************************)
(* Fixed texts of the source.                                              *)
(***************************************************************************)
FailedCompileText == <<"F","a","i","l","e","d"," ","t","o"," ","p","a","r","s","e"," ","c","o","m","p","i","l","a","t","i","o","n"," ","o","u","t","p","u","t">>
FailedSlitherText == <<"F","a","i","l","e","d"," ","t","o"," ","p","a","r","s","e"," ","S","l","i","t","h","e","r"," ","o","u","t","p","u","t">>
SkipReason == <<"C","o","m","p","i","l","a","t","i","o","n"," ","f","a","i","l","e","d">>
ErrorMarker == <<"E","r","r","o","r",":">>
WarningMarker == <<"W","a","r","n","i","n","g",":">>
CodeRequired == <<"C","o","d","e"," ","i","s"," ","r","e","q","u","i","r","e","d">>
Unknown == <<"u","n","k","n","o","w","n">>
EmptyText == << >>

(***************************************************************************)
(* JavaScript values.                                                      *)
(***************************************************************************)
JUndef == [t |-> "undefined"]
JNull == [t |-> "null"]
JBool(b) == [t |-> "bool", v |-> b]
JNum(n) == [t |-> "num", v |-> n]
JStr(s) == [t |-> "str", v |-> s]
JArr(s) == [t |-> "arr", v |-> s]
JObj(f) == [t |-> "obj", v |-> f]
\* the completion of an expression that threw
Thrown == [t |-> "throw"]

Nullish(x) == x.t \in {"undefined", "null"}

\* ToBoolean
Truthy(x) ==
  CASE x.t \in {"undefined", "null"} -> FALSE
    [] x.t = "bool" -> x.v
    [] x.t = "num" -> x.v # 0
    [] x.t = "str" -> x.v # EmptyText
    [] OTHER -> TRUE

\* x.k for a name k that no prototype defines: a TypeError on null and
\* undefined, the own property of an object, undefined otherwise
Get(x, k) ==
  CASE Nullish(x) -> Thrown
    [] x.t = "obj" -> IF k \in DOMAIN x.v THEN x.v[k] ELSE JUndef
    [] OTHER -> JUndef

\* JSON.stringify of an object followed by JSON.parse of the text, on the
\* objects the handlers build: a property whose value is undefined is not
\* written, every other property comes back unchanged
DropUndefined(o) == [k \in {j \in DOMAIN o : o[j] # JUndef} |-> o[k]]
JSONRoundTrip(o) == JObj(DropUndefined(o))

(***************************************************************************)
(* Output of the external tools: the texts the model lets solc and slither *)
(* write, and JSON.parse on them.                                          *)
(***************************************************************************)
OutNull == <<"n","u","l","l">>
OutGarbage == <<"o","k">>
OutEmptyObject == <<"{","}">>
OutContracts == <<"{","\"","c","o","n","t","r","a","c","t","s","\"",":","{","}","}">>
OutDetectors == <<"{","\"","r","e","s","u","l","t","s","\"",":","{","\"","d","e","t","e","c","t","o","r","s","\"",":","[","{","\"","i","m","p","a","c","t","\"",":","\"","H","i","g","h","\"","}",",","{","}","]","}","}">>
OutDetectorsNotList == <<"{","\"","r","e","s","u","l","t","s","\"",":","{","\"","d","e","t","e","c","t","o","r","s","\"",":","1","}","}">>
OutDetectorsNullEntry == <<"{","\"","r","e","s","u","l","t","s","\"",":","{","\"","d","e","t","e","c","t","o","r","s","\"",":","[","n","u","l","l","]","}","}">>
ErrDiag == <<"E","r","r","o","r",":"," ","a","\n"," ","W","a","r","n","i","n","g",":"," ","b"," ","\n","n","o","t","e","\n">>
\* stderr with a line that holds both markers and a two-byte character, an
\* empty line, a second error and a warning after it
ErrBoth == <<"W","a","r","n","i","n","g",":"," ","0xC3","0xA9"," ","E","r","r","o","r",":"," ","y","\n","\n","E","r","r","o","r",":"," ","z","\n","W","a","r","n","i","n","g",":"," ","w">>
High == <<"H","i","g","h">>

(***************************************************************************)
(* What a child writes is bytes: a character of the ASCII range is one     *)
(* byte, written here as the character; "0xC3" "0xA9" are the two bytes of *)
(* the UTF-8 encoding of U+00E9.  A 'data' event delivers a Buffer with    *)
(* some of the bytes, cut where the pipe was read.                         *)
(***************************************************************************)
LeadByte == "0xC3"
ContinuationByte == "0xA9"
EAcute == "U+00E9"
ReplacementCharacter == "U+FFFD"

\* data.toString(): the UTF-8 decoding of one Buffer; a byte sequence that
\* is incomplete or out of place becomes U+FFFD
RECURSIVE BufferToString(_)
BufferToString(bytes) ==
  IF bytes = << >> THEN << >>
  ELSE IF Head(bytes) = LeadByte /\ Len(bytes) >= 2 /\ bytes[2] = ContinuationByte
       THEN <<EAcute>> \o BufferToString(SubSeq(bytes, 3, Len(bytes)))
  ELSE IF Head(bytes) \in {LeadByte, ContinuationByte}
       THEN <<ReplacementCharacter>> \o BufferToString(Tail(bytes))
  ELSE <<Head(bytes)>> \o BufferToString(Tail(bytes))

\* the bytes of a sequence of chunks, in order
RECURSIVE Concat(_)
Concat(chunks) == IF chunks = << >> THEN << >> ELSE Head(chunks) \o Concat(Tail(chunks))

EmptyObject == [k \in {} |-> JUndef]

\* JSON.parse(text): the value, or Thrown for a SyntaxError. Every text the
\* tools of the model write is listed; the empty text and any other text
\* is no JSON document.
JSONParse(text) ==
  CASE text = OutNull -> JNull
    [] text = OutEmptyObject -> JObj(EmptyObject)
    [] text = OutContracts -> JObj([contracts |-> JObj(EmptyObject)])
    [] text = OutDetectors ->
         JObj([results |-> JObj([detectors |->
           JArr(<<JObj([impact |-> JStr(High)]), JObj(EmptyObject)>>)])])
    [] text = OutDetectorsNotList ->
         JObj([results |-> JObj([detectors |-> JNum(1)])])
    [] text = OutDetectorsNullEntry ->
         JObj([results |-> JObj([detectors |-> JArr(<<JNull>>)])])
    [] OTHER -> Thrown

(***************************************************************************)
(* String operations used by the classification of stderr.                 *)
(***************************************************************************)
IsSpace(c) == c \in {" ", "\n", "\t", "\r"}

RECURSIVE TrimStart(_)
TrimStart(s) ==
  IF s # << >> /\ IsSpace(Head(s)) THEN TrimStart(Tail(s)) ELSE s

RECURSIVE TrimEnd(_)
TrimEnd(s) ==
  IF s # << >> /\ IsSpace(s[Len(s)]) THEN TrimEnd(SubSeq(s, 1, Len(s) - 1)) ELSE s

\* String.prototype.trim
Trim(s) == TrimEnd(TrimStart(s))

\* String.prototype.includes
Includes(s, pat) ==
  \E i \in 1..(Len(s) - Len(pat) + 1) : SubSeq(s, i, i + Len(pat) - 1) = pat

\* s.split('\n'): the pieces between line breaks, empty pieces included
RECURSIVE SplitLines(_)
SplitLines(s) ==
  IF \A i \in 1..Len(s) : s[i] # "\n" THEN <<s>>
  ELSE LET n == CHOOSE i \in 1..Len(s) :
                  s[i] = "\n" /\ \A j \in 1..(i - 1) : s[j] # "\n"
       IN <<SubSeq(s, 1, n - 1)>> \o SplitLines(SubSeq(s, n + 1, Len(s)))

NonBlank(line) == Trim(line) # EmptyText
\* two independent tests in place of if / else if
IsWarningLineNoElse(line) == Includes(line, WarningMarker)
IsErrorLine(line) == Includes(line, ErrorMarker)
IsWarningLine(line) == ~Includes(line, ErrorMarker) /\ Includes(line, WarningMarker)

RECURSIVE MapTrim(_)
MapTrim(s) == IF s = << >> THEN << >> ELSE <<JStr(Trim(Head(s)))>> \o MapTrim(Tail(s))

\* the lines of stderr that pass .filter(line => line.trim())
DiagnosticLines(stderr) ==
  IF stderr = EmptyText THEN << >> ELSE SelectSeq(SplitLines(stderr), NonBlank)

\* the two buckets of the forEach over the lines of stderr
ClassifyErrors(stderr) == MapTrim(SelectSeq(DiagnosticLines(stderr), IsErrorLine))
ClassifyWarnings(stderr) == MapTrim(SelectSeq(DiagnosticLines(stderr), IsWarningLine))

(***************************************************************************)
(* Exit status of a child process and the result of runCommand.            *)
(***************************************************************************)
\* the code argument of 'close': a number, or null after a signal
ExitCode(n) == [null |-> FALSE, code |-> n]
SignalExit == [null |-> TRUE, code |-> 0]
\* exitCode === 0
ExitIsZero(e) == ~e.null /\ e.code = 0

ProcessResult(out, err, e) == [stdout |-> out, stderr |-> err, exitCode |-> e]

(***************************************************************************)
(* Paths: a path is the sequence of its segments below the root; a file    *)
(* name argument is the sequence of the pieces between its '/' characters  *)
(* (a leading empty piece for a name that starts with '/').                *)
(***************************************************************************)
\* os.tmpdir()
TmpRoot == <<"tmp">>

RECURSIVE NormalizeOnto(_, _)
NormalizeOnto(stack, rest) ==
  IF rest = << >> THEN stack
  ELSE LET seg == Head(rest) IN
       CASE seg \in {"", "."} -> NormalizeOnto(stack, Tail(rest))
         [] seg = ".." ->
              NormalizeOnto(IF stack = << >> THEN stack
                            ELSE SubSeq(stack, 1, Len(stack) - 1), Tail(rest))
         [] OTHER -> NormalizeOnto(Append(stack, seg), Tail(rest))

\* path.join(dir, name) for an absolute dir: the normalized concatenation
PathJoin(dir, name) == NormalizeOnto(<< >>, dir \o name)

IsPrefix(p, q) == Len(p) <= Len(q) /\ SubSeq(q, 1, Len(p)) = p
\* q lies strictly below the directory p
Inside(p, q) == IsPrefix(p, q) /\ Len(q) > Len(p)

(***************************************************************************)
(* compileSolidity, lines 173-208: the result object built from the        *)
(* result of runCommand.                                                   *)
(***************************************************************************)
\* success that also requires stdout to parse
CompileSuccessNeedsParse(pr) ==
  ExitIsZero(pr.exitCode) /\ (pr.stdout = EmptyText \/ JSONParse(pr.stdout) # Thrown)

\* const success = exitCode === 0
CompileSuccess(pr) == ExitIsZero(pr.exitCode)

\* the completion of the inner try block: the value assigned to contracts,
\* or Thrown when JSON.parse or the property read threw
CompileParsed(pr) ==
  LET output == JSONParse(pr.stdout)
  IN IF output = Thrown THEN Thrown ELSE Get(output, "contracts")

\* a parse that does not depend on success
CompileParseAlways(pr) == pr.stdout # EmptyText

\* if (success && stdout)
CompileParseAttempted(pr) == CompileSuccess(pr) /\ pr.stdout # EmptyText

CompileContracts(pr) ==
  IF CompileParseAttempted(pr) /\ CompileParsed(pr) # Thrown
  THEN CompileParsed(pr) ELSE JNull

CompileErrors(pr) ==
  (IF CompileParseAttempted(pr) /\ CompileParsed(pr) = Thrown
   THEN <<JStr(FailedCompileText)>> ELSE << >>)
  \o ClassifyErrors(pr.stderr)

\* last is raw_output (stdio server) or filename (HTTP server)
CompileResult(pr, lastKey, lastVal) ==
  [k \in {"success", "errors", "warnings", "contracts", lastKey} |->
     CASE k = "success" -> JBool(CompileSuccess(pr))
       [] k = "errors" -> JArr(CompileErrors(pr))
       [] k = "warnings" -> JArr(ClassifyWarnings(pr.stderr))
       [] k = "contracts" -> CompileContracts(pr)
       [] OTHER -> lastVal]

(***************************************************************************)
(* runSecurityAudit, lines 227-267.                                        *)
(***************************************************************************)
AuditParseAttempted(pr) == pr.stdout # EmptyText

\* output.results?.detectors, or Thrown when JSON.parse or output.results
\* threw
AuditDetectors(pr) ==
  LET output == JSONParse(pr.stdout)
      results == IF output = Thrown THEN Thrown ELSE Get(output, "results")
  IN CASE results = Thrown -> Thrown
       [] Nullish(results) -> JUndef
       [] OTHER -> Get(results, "detectors")

\* line 236 was reached: the local success is true
AuditParsed(pr) == AuditParseAttempted(pr) /\ AuditDetectors(pr) # Thrown

AuditFindings(pr) ==
  IF AuditParsed(pr) /\ Truthy(AuditDetectors(pr))
  THEN AuditDetectors(pr) ELSE JArr(<< >>)

\* finding.impact || 'unknown', as the property key it is used as
ImpactKey(finding) ==
  LET impact == Get(finding, "impact")
  IN IF Truthy(impact) /\ impact.t = "str" THEN impact.v ELSE Unknown

\* findings.forEach(...) threw: findings has no forEach, or an entry is
\* null so that finding.impact throws
AuditSummaryThrows(pr) ==
  LET f == AuditFindings(pr)
  IN AuditParsed(pr) /\
       (f.t # "arr" \/ \E j \in 1..Len(f.v) : Nullish(f.v[j]))

AuditSummary(pr) ==
  IF ~AuditParsed(pr) \/ AuditSummaryThrows(pr) THEN JObj(EmptyObject)
  ELSE LET f == AuditFindings(pr).v
           keys == {ImpactKey(f[j]) : j \in 1..Len(f)}
       IN JObj([total_findings |-> JNum(Len(f)),
                severity_breakdown |->
                  JObj([k \in keys |->
                     JNum(Cardinality({j \in 1..Len(f) : ImpactKey(f[j]) = k}))])])

\* errors that takes stderr in whenever there is some
AuditErrorsWithStderr(pr) ==
  (IF AuditParseAttempted(pr) /\ (~AuditParsed(pr) \/ AuditSummaryThrows(pr))
   THEN <<JStr(FailedSlitherText)>> ELSE << >>)
  \o (IF pr.stderr # EmptyText THEN <<JStr(Trim(pr.stderr))>> ELSE << >>)

AuditErrors(pr) ==
  (IF AuditParseAttempted(pr) /\ (~AuditParsed(pr) \/ AuditSummaryThrows(pr))
   THEN <<JStr(FailedSlitherText)>> ELSE << >>)
  \o (IF pr.stderr # EmptyText /\ ~AuditParsed(pr)
      THEN <<JStr(Trim(pr.stderr))>> ELSE << >>)

\* success without the fallback to the exit code
AuditSuccessNoFallback(pr) == AuditParsed(pr)

\* success: success || exitCode === 0
AuditSuccess(pr) == AuditParsed(pr) \/ ExitIsZero(pr.exitCode)

AuditResult(pr, lastKey, lastVal) ==
  [k \in {"success", "findings", "summary", "errors", lastKey} |->
     CASE k = "success" -> JBool(AuditSuccess(pr))
       [] k = "findings" -> AuditFindings(pr)
       [] k = "summary" -> AuditSummary(pr)
       [] k = "errors" -> JArr(AuditErrors(pr))
       [] OTHER -> lastVal]

(***************************************************************************)
(* compileAndAudit: the composite result.                                  *)
(***************************************************************************)
WorkflowName == <<"c","o","m","p","i","l","e","_","a","n","d","_","a","u","d","i","t">>
SkipMarker == JObj([skipped |-> JStr(SkipReason)])

\* a && b
JsAnd(a, b) == IF Truthy(a) THEN b ELSE a

\* a workflow that always goes on to the audit
CompileFailedIgnored(compileData) == FALSE

\* if (!compileData.success)
CompileFailed(compileData) == ~Truthy(Get(compileData, "success"))

SkippedWorkflow(compileData) ==
  [workflow |-> JStr(WorkflowName), compile_step |-> compileData,
   audit_step |-> SkipMarker, overall_success |-> JBool(FALSE)]

FullWorkflow(compileData, auditData) ==
  [workflow |-> JStr(WorkflowName), compile_step |-> compileData,
   audit_step |-> auditData,
   overall_success |-> JsAnd(Get(compileData, "success"), Get(auditData, "success"))]

\* JSON.stringify(object) / res.json(object): the JSON document, written as
\* the value JSON.parse gives back for it
JSONStringify(o) == JSONRoundTrip(o)

\* error.message of an exception of the file system or of spawn
ErrorText == <<"E","I","O">>
\* res.status(500).json({ error: error.message })
ErrorBody == JObj([error |-> JStr(ErrorText)])
\* res.status(400).json({ error: 'Code is required' })
CodeRequiredBody == JObj([error |-> JStr(CodeRequired)])

(***************************************************************************)
(* Inputs.                                                                 *)
(***************************************************************************)
Inv == 1..MaxInv
Programs == {"stdio", "http"}
\* the tool (or route) of a request; "unknown" is a tool name the stdio
\* server does not have
Ops == {"compile", "audit", "workflow", "unknown"}
Source == <<"c","o","n","t","r","a","c","t"," ","C","{","}">>
Codes == {JUndef, JStr(Source)}
\* the filename argument: absent, a plain name, a name that climbs out of
\* the directory, a name in a sub-directory, a name starting with '/'
Filenames == {JUndef, JStr(<<"..", "evil.sol">>), JStr(<<"sub", "C.sol">>),
              JStr(<<"", "abs.sol">>)}
\* const { code, filename = 'Contract.sol' } = args
FilenameOf(r) == IF r.filename = JUndef THEN <<"Contract.sol">> ELSE r.filename.v

StepsOf(op) == IF op = "audit" THEN "audit" ELSE "compile"
ToolOf(st) == IF st = "compile" THEN "solc" ELSE "slither"

\* what a started tool does: the chunks it writes to each stream and its
\* exit status
OutTexts(tool) ==
  IF tool = "solc"
  THEN {EmptyText, OutContracts, OutGarbage, OutNull, OutEmptyObject}
  ELSE {EmptyText, OutDetectors, OutGarbage, OutNull, OutEmptyObject,
        OutDetectorsNotList, OutDetectorsNullEntry}
\* stderr: nothing or diagnostics; the compiler also writes the diagnostics
\* with both markers
ErrTexts(tool) ==
  IF tool = "solc" THEN {EmptyText, ErrDiag, ErrBoth} ELSE {EmptyText, ErrDiag}
ExitCodes == {ExitCode(0), ExitCode(1), SignalExit}
\* the bytes of a text as the chunks of the 'data' events that deliver
\* them: all at once, or cut in two (for ErrBoth inside the two-byte
\* character)
Chunkings(text) ==
  IF text = EmptyText THEN {<< >>}
  ELSE IF text = OutContracts
       THEN {<<text>>, <<SubSeq(text, 1, 5), SubSeq(text, 6, Len(text))>>}
  ELSE IF text = ErrBoth
       THEN {<<text>>, <<SubSeq(text, 1, 10), SubSeq(text, 11, Len(text))>>}
       ELSE {<<text>>}
ToolRuns(tool) ==
  {[out |-> o, err |-> e, code |-> c] :
     o \in UNION {Chunkings(t) : t \in OutTexts(tool)},
     e \in UNION {Chunkings(t) : t \in ErrTexts(tool)},
     c \in ExitCodes}
\* the behaviours under overlapping requests: a clean run and a failed one
PlainRuns(tool) ==
  {[out |-> <<IF tool = "solc" THEN OutContracts ELSE OutDetectors>>,
    err |-> << >>, code |-> ExitCode(0)],
   [out |-> << >>, err |-> <<ErrDiag>>, code |-> ExitCode(1)]}

(***************************************************************************)
(* State.                                                                  *)
(***************************************************************************)
VARIABLES
  program,      \* which server runs: index.js ("stdio") or the HTTP server
  load,         \* the traffic: "serial" (one request at a time, every tool
                \* behaviour), "plain" (one request at a time, a clean and
                \* a failed tool run) or "concurrent" (overlapping requests)
  dirs,         \* names of the directories that exist under os.tmpdir()
  files,        \* path -> text: the files that exist below the root
  served,       \* number of requests received so far
  pc,           \* where each invocation is suspended
  req,          \* its request: [op, code, filename]
  step,         \* the tool invocation it is in: "compile" or "audit"
  tempDir,      \* tempDir of that tool invocation ("" before mkdtemp)
  filePath,     \* filePath of that tool invocation
  child,        \* the child process of each step's runCommand
  cmd,          \* the closure of each step's runCommand: stdout, stderr,
                \* whether its promise is settled, and the value
  held,         \* what the try block completed with, kept over finally
  compileData,  \* compileData of compileAndAudit
  result,       \* what the caller received
  log           \* history of the invocation's file and process operations

vars == <<program, load, dirs, files, served, pc, req, step, tempDir, filePath, child, cmd,
          held, compileData, result, log>>

Steps == {"compile", "audit"}
\* out, err: the chunks the child writes that no 'data' event has delivered
\* yet
NoChild == [st |-> "none", out |-> << >>, err |-> << >>, code |-> ExitCode(0)]
NoResult == ProcessResult(EmptyText, EmptyText, ExitCode(0))
NoCmd == [stdout |-> EmptyText, stderr |-> EmptyText, settled |-> "no",
          value |-> NoResult]
NoReq == [op |-> "none", code |-> JUndef, filename |-> JUndef]
EmptyFiles == [p \in {} |-> 0]

InitState ==
  /\ program \in Programs
  /\ dirs = {}
  /\ files = EmptyFiles
  /\ served = 0
  /\ pc = [i \in Inv |-> "idle"]
  /\ req = [i \in Inv |-> NoReq]
  /\ step = [i \in Inv |-> "none"]
  /\ tempDir = [i \in Inv |-> ""]
  /\ filePath = [i \in Inv |-> << >>]
  /\ child = [i \in Inv |-> [s \in Steps |-> NoChild]]
  /\ cmd = [i \in Inv |-> [s \in Steps |-> NoCmd]]
  /\ held = [i \in Inv |-> JUndef]
  /\ compileData = [i \in Inv |-> JUndef]
  /\ result = [i \in Inv |-> JUndef]
  /\ log = [i \in Inv |-> << >>]

\* one request at a time, every behaviour of the tools
Init == load = "serial" /\ InitState
\* overlapping requests
InitConcurrent == load = "concurrent" /\ InitState
\* one request at a time, a clean and a failed run of each tool
InitPlain == load = "plain" /\ InitState

(***************************************************************************)
(* File system.                                                            *)
(***************************************************************************)
\* fs.mkdtemp(path.join(os.tmpdir(), prefix)) appends random characters
Prefix == IF program = "stdio" THEN "solidity-mcp-" ELSE "solidity-"
TempName(n) == Prefix \o ToString(n)
TempNames == {TempName(n) : n \in 1..MaxTemp}
\* the names fs.mkdtemp can return: one that is not in use. The suffixes
\* are interchangeable, so the first unused one stands for all of them.
FreshNames ==
  {TempName(n) : n \in {m \in 1..MaxTemp :
                          /\ TempName(m) \notin dirs
                          /\ \A l \in 1..(m - 1) : TempName(l) \in dirs}}
DirPath(name) == TmpRoot \o <<name>>
DirExists(p) == p \in ({<< >>, TmpRoot} \cup {DirPath(d) : d \in dirs})
Parent(p) == SubSeq(p, 1, Len(p) - 1)
\* fs.writeFile(p, code, 'utf8') can succeed: the data is a string, the
\* directory of p exists and p is no directory
CanWrite(p, code) ==
  code.t = "str" /\ p # << >> /\ DirExists(Parent(p)) /\ ~DirExists(p)
WithFile(fs, p, f) == [q \in DOMAIN fs \cup {p} |-> IF q = p THEN f ELSE fs[q]]
\* fs.rm(dir, { recursive: true, force: true })
WithoutTree(fs, dir) == [q \in {r \in DOMAIN fs : ~IsPrefix(dir, r)} |-> fs[q]]

(***************************************************************************)
(* The end of a tool invocation (compileSolidity, runSecurityAudit or the  *)
(* HTTP route of the same name) and what its caller does with it.          *)
(* outcome is [t |-> "return", v |-> result object] or Thrown.             *)
(***************************************************************************)
Returned(v) == [t |-> "return", v |-> v]

\* what the caller of the step holds: the parsed content text (stdio), the
\* parsed response body (HTTP; the routes answer an exception with 500)
StepData(outcome) ==
  IF outcome = Thrown THEN ErrorBody ELSE JSONStringify(outcome.v)

\* what the caller of the whole invocation receives
Reply(outcome, body) ==
  IF program = "stdio"
  THEN [t |-> "return", status |-> 0, v |-> body]
  ELSE [t |-> "response", status |-> IF outcome = Thrown THEN 500 ELSE 200,
        v |-> body]

\* the catch of the CallToolRequestSchema handler rethrows as InternalError
McpFailure == [t |-> "throw", status |-> 0, v |-> JStr(<<"InternalError">>)]
\* new McpError(ErrorCode.MethodNotFound, ...), thrown in the try block of
\* the handler
MethodNotFound == [t |-> "throw", status |-> 0, v |-> JStr(<<"MethodNotFound">>)]
\* catch (error) { throw new McpError(ErrorCode.InternalError, ...) }: the
\* catch of the handler, for whatever was thrown in its try block
HandlerCatch(error) == McpFailure

Finish(i, outcome) ==
  /\ tempDir' = [tempDir EXCEPT ![i] = ""]
  /\ filePath' = [filePath EXCEPT ![i] = << >>]
  /\ held' = [held EXCEPT ![i] = JUndef]
  /\ IF program = "stdio" /\ outcome = Thrown
     THEN /\ result' = [result EXCEPT ![i] = McpFailure]
          /\ pc' = [pc EXCEPT ![i] = "done"]
          /\ UNCHANGED <<step, compileData>>
     ELSE IF req[i].op # "workflow"
     THEN /\ result' = [result EXCEPT ![i] = Reply(outcome, StepData(outcome))]
          /\ pc' = [pc EXCEPT ![i] = "done"]
          /\ UNCHANGED <<step, compileData>>
     ELSE IF step[i] = "compile"
     THEN /\ compileData' = [compileData EXCEPT ![i] = StepData(outcome)]
          /\ IF CompileFailed(StepData(outcome))
             THEN /\ result' = [result EXCEPT ![i] =
                       Reply(Returned(0),
                             JSONStringify(SkippedWorkflow(StepData(outcome))))]
                  /\ pc' = [pc EXCEPT ![i] = "done"]
                  /\ UNCHANGED step
             ELSE /\ step' = [step EXCEPT ![i] = "audit"]
                  /\ pc' = [pc EXCEPT ![i] = "mkdtemp"]
                  /\ UNCHANGED result
     ELSE /\ result' = [result EXCEPT ![i] =
               Reply(Returned(0),
                     JSONStringify(FullWorkflow(compileData[i], StepData(outcome))))]
          /\ pc' = [pc EXCEPT ![i] = "done"]
          /\ UNCHANGED <<step, compileData>>

Logged(i, events) == [log EXCEPT ![i] = @ \o events]

(***************************************************************************)
(* A request arrives.                                                      *)
(***************************************************************************)
Start(i) ==
  /\ pc[i] = "idle"
  /\ served < (IF load = "concurrent" THEN MaxInv ELSE MaxRequests)
  /\ load # "concurrent" => \A j \in Inv : pc[j] = "idle"
  \* slots are interchangeable: a request takes the lowest free one
  /\ \A j \in Inv : j < i => pc[j] # "idle"
  /\ \E op \in Ops, code \in Codes, filename \in Filenames :
       /\ op = "unknown" => program = "stdio"
       /\ req' = [req EXCEPT ![i] = [op |-> op, code |-> code, filename |-> filename]]
       /\ IF op = "unknown"
          THEN \* the else branch throws, and the catch around it rethrows
               /\ result' = [result EXCEPT ![i] = HandlerCatch(MethodNotFound)]
               /\ pc' = [pc EXCEPT ![i] = "done"]
               /\ UNCHANGED step
          ELSE IF program = "http" /\ ~Truthy(code)
          THEN \* if (!code) return res.status(400).json(...)
               /\ result' = [result EXCEPT ![i] =
                     [t |-> "response", status |-> 400, v |-> CodeRequiredBody]]
               /\ pc' = [pc EXCEPT ![i] = "done"]
               /\ UNCHANGED step
          ELSE /\ step' = [step EXCEPT ![i] = StepsOf(op)]
               /\ pc' = [pc EXCEPT ![i] = "mkdtemp"]
               /\ UNCHANGED result
  /\ served' = served + 1
  /\ UNCHANGED <<program, load, dirs, files, tempDir, filePath, child, cmd, held,
                 compileData, log>>

(***************************************************************************)
(* createTempFile.                                                         *)
(***************************************************************************)
MkdtempOk(i) ==
  /\ pc[i] = "mkdtemp"
  /\ \E name \in FreshNames :
       /\ dirs' = dirs \cup {name}
       /\ tempDir' = [tempDir EXCEPT ![i] = name]
       /\ filePath' = [filePath EXCEPT ![i] =
                          PathJoin(DirPath(name), FilenameOf(req[i]))]
       /\ log' = Logged(i, <<[e |-> "mkdtemp", dir |-> name]>>)
  /\ pc' = [pc EXCEPT ![i] = "writeFile"]
  /\ UNCHANGED <<program, load, served, files, req, step, child, cmd, held, compileData, result>>

\* a createTempFile that goes on without a directory when fs.mkdtemp rejects
MkdtempFailIgnored(i) ==
  /\ pc[i] = "mkdtemp"
  /\ log' = Logged(i, <<[e |-> "ioerror", step |-> step[i]]>>)
  /\ filePath' = [filePath EXCEPT ![i] = PathJoin(TmpRoot, FilenameOf(req[i]))]
  /\ pc' = [pc EXCEPT ![i] = "writeFile"]
  /\ UNCHANGED <<program, load, served, dirs, files, req, step, tempDir, child, cmd,
                 held, compileData, result>>

\* fs.mkdtemp rejects; the exception leaves createTempFile and the step
MkdtempFail(i) ==
  /\ pc[i] = "mkdtemp"
  /\ log' = Logged(i, <<[e |-> "ioerror", step |-> step[i]]>>)
  /\ Finish(i, Thrown)
  /\ UNCHANGED <<program, load, served, dirs, files, req, child, cmd>>

\* fs.writeFile rejects (it cannot write there, or the device fails); the
\* exception leaves createTempFile, which is called before the try block
WriteFileFail(i) ==
  /\ pc[i] = "writeFile"
  /\ log' = Logged(i, <<[e |-> "ioerror", step |-> step[i]]>>)
  /\ Finish(i, Thrown)
  /\ UNCHANGED <<program, load, served, dirs, files, req, child, cmd>>

(***************************************************************************)
(* The step function after createTempFile: the try block and finally.      *)
(***************************************************************************)
\* the result object of the step for the result pr of runCommand
StepResult(i, pr) ==
  LET lastKey == IF program = "stdio" THEN "raw_output" ELSE "filename"
      lastVal == IF program = "stdio" THEN JStr(pr.stdout)
                 ELSE JStr(FilenameOf(req[i]))
  IN IF step[i] = "compile" THEN CompileResult(pr, lastKey, lastVal)
     ELSE AuditResult(pr, lastKey, lastVal)

\* a try block whose cleanup runs only when the block completes normally
EnterFinallyOnReturnOnly(i, outcome, events) ==
  IF outcome = Thrown
  THEN /\ log' = Logged(i, events)
       /\ Finish(i, Thrown)
  ELSE /\ held' = [held EXCEPT ![i] = outcome]
       /\ pc' = [pc EXCEPT ![i] = "rm"]
       /\ log' = Logged(i, events \o <<[e |-> "cleanup", dir |-> tempDir[i]]>>)
       /\ UNCHANGED <<step, tempDir, filePath, compileData, result>>

\* the try block completes with outcome (a return value or an exception);
\* finally calls cleanupTempDir(tempDir) and awaits it
EnterFinally(i, outcome, events) ==
  /\ held' = [held EXCEPT ![i] = outcome]
  /\ pc' = [pc EXCEPT ![i] = "rm"]
  /\ log' = Logged(i, events \o <<[e |-> "cleanup", dir |-> tempDir[i]]>>)
  /\ UNCHANGED <<step, tempDir, filePath, compileData, result>>

\* fs.writeFile resolves; createTempFile returns; runCommand spawns the tool
Staged(i) ==
  /\ pc[i] = "writeFile"
  /\ CanWrite(filePath[i], req[i].code)
  /\ files' = WithFile(files, filePath[i], req[i].code.v)

StagedEvents(i) ==
  <<[e |-> "staged", path |-> filePath[i]], [e |-> "spawn", tool |-> ToolOf(step[i])]>>

\* a runCommand that is not awaited: the step goes on with an empty result
\* while the child runs
WriteThenSpawnNoAwait(i) ==
  /\ Staged(i)
  /\ \E run \in PlainRuns(ToolOf(step[i])) :
       child' = [child EXCEPT ![i][step[i]] =
                   [st |-> "run", out |-> run.out, err |-> run.err, code |-> run.code]]
  /\ cmd' = [cmd EXCEPT ![i][step[i]] = NoCmd]
  /\ EnterFinally(i, Returned(StepResult(i, NoResult)), StagedEvents(i))
  /\ UNCHANGED <<program, load, served, dirs, req>>

\* spawn returns a child that runs
WriteThenSpawn(i) ==
  /\ Staged(i)
  /\ \E run \in IF load = "serial" THEN ToolRuns(ToolOf(step[i]))
                ELSE PlainRuns(ToolOf(step[i])) :
       child' = [child EXCEPT ![i][step[i]] =
                   [st |-> "run", out |-> run.out, err |-> run.err, code |-> run.code]]
  /\ cmd' = [cmd EXCEPT ![i][step[i]] = NoCmd]
  /\ pc' = [pc EXCEPT ![i] = "running"]
  /\ log' = Logged(i, StagedEvents(i))
  /\ UNCHANGED <<program, load, served, dirs, req, step, tempDir, filePath, held, compileData, result>>

\* a runCommand that spawns the tool a second time when it could not be
\* started
WriteThenSpawnErrorRetried(i) ==
  /\ Staged(i)
  /\ child' = [child EXCEPT ![i][step[i]] =
                 [NoChild EXCEPT !.st = "fail", !.code = ExitCode(-2)]]
  /\ cmd' = [cmd EXCEPT ![i][step[i]] = NoCmd]
  /\ pc' = [pc EXCEPT ![i] = "running"]
  /\ log' = Logged(i, StagedEvents(i) \o <<[e |-> "spawn", tool |-> ToolOf(step[i])]>>)
  /\ UNCHANGED <<program, load, served, dirs, req, step, tempDir, filePath, held, compileData, result>>

\* spawn returns a child that could not be started (ENOENT, EACCES): it
\* will emit 'error' and then 'close' with the negative error number
WriteThenSpawnError(i) ==
  /\ Staged(i)
  /\ child' = [child EXCEPT ![i][step[i]] =
                 [NoChild EXCEPT !.st = "fail", !.code = ExitCode(-2)]]
  /\ cmd' = [cmd EXCEPT ![i][step[i]] = NoCmd]
  /\ pc' = [pc EXCEPT ![i] = "running"]
  /\ log' = Logged(i, StagedEvents(i))
  /\ UNCHANGED <<program, load, served, dirs, req, step, tempDir, filePath, held, compileData, result>>

\* spawn throws inside the promise executor (or process.stdout is not
\* there to attach a listener to): the promise of runCommand is rejected
\* and the await in the try block throws
WriteThenSpawnThrow(i) ==
  /\ Staged(i)
  /\ cmd' = [cmd EXCEPT ![i][step[i]] = [NoCmd EXCEPT !.settled = "rejected"]]
  /\ EnterFinally(i, Thrown, StagedEvents(i))
  /\ UNCHANGED <<program, load, served, dirs, req, child>>

(***************************************************************************)
(* runCommand: the listeners on the child.                                 *)
(***************************************************************************)
\* process.stdout.on('data', ...)
StdoutData(i) ==
  \E s \in Steps :
    /\ child[i][s].st = "run"
    /\ child[i][s].out # << >>
    /\ cmd' = [cmd EXCEPT ![i][s].stdout = @ \o BufferToString(Head(child[i][s].out))]
    /\ child' = [child EXCEPT ![i][s].out = Tail(@)]
    /\ UNCHANGED <<program, load, served, dirs, files, pc, req, step, tempDir, filePath, held,
                   compileData, result, log>>

\* process.stderr.on('data', ...)
StderrData(i) ==
  \E s \in Steps :
    /\ child[i][s].st = "run"
    /\ child[i][s].err # << >>
    /\ cmd' = [cmd EXCEPT ![i][s].stderr = @ \o BufferToString(Head(child[i][s].err))]
    /\ child' = [child EXCEPT ![i][s].err = Tail(@)]
    /\ UNCHANGED <<program, load, served, dirs, files, pc, req, step, tempDir, filePath, held,
                   compileData, result, log>>

\* a promise whose value every call of resolve replaces
ResolveOverwrites(i, s, value) ==
  IF cmd[i][s].settled = "no"
  THEN /\ cmd' = [cmd EXCEPT ![i][s].settled = "resolved", ![i][s].value = value]
       /\ EnterFinally(i, Returned(StepResult(i, value)), <<[e |-> "exit", tool |-> ToolOf(s)]>>)
  ELSE /\ cmd' = [cmd EXCEPT ![i][s].value = value]
       /\ UNCHANGED <<held, pc, log, step, tempDir, filePath, compileData, result>>

\* resolve(value): the first call settles the promise, and the awaiting
\* step function goes on to build its result and to finally; a later call
\* does nothing
Resolve(i, s, value) ==
  IF cmd[i][s].settled = "no"
  THEN /\ cmd' = [cmd EXCEPT ![i][s].settled = "resolved", ![i][s].value = value]
       /\ EnterFinally(i, Returned(StepResult(i, value)), <<[e |-> "exit", tool |-> ToolOf(s)]>>)
  ELSE UNCHANGED <<cmd, held, pc, log, step, tempDir, filePath, compileData, result>>

\* the value 'close' resolves with
CloseValue(c, code) == ProcessResult(c.stdout, c.stderr, code)
\* the value 'error' resolves with
ErrorValue(message) == ProcessResult(EmptyText, message, ExitCode(1))

\* process.on('close', ...): both streams have ended
OnClose(i) ==
  \E s \in Steps :
    /\ \/ child[i][s].st = "run" /\ child[i][s].out = << >> /\ child[i][s].err = << >>
       \/ child[i][s].st = "failclose"
    /\ child' = [child EXCEPT ![i][s].st = "end"]
    /\ Resolve(i, s, CloseValue(cmd[i][s], child[i][s].code))
    /\ UNCHANGED <<program, load, served, dirs, files, req>>

\* process.on('error', ...)
OnError(i) ==
  \E s \in Steps :
    /\ child[i][s].st = "fail"
    /\ child' = [child EXCEPT ![i][s].st = "failclose"]
    /\ Resolve(i, s, ErrorValue(ErrorText))
    /\ UNCHANGED <<program, load, served, dirs, files, req>>

(***************************************************************************)
(* cleanupTempDir and the end of the step.                                 *)
(***************************************************************************)
\* an fs.rm that resolves and leaves the directory where it is
RmOkKeepsDir(i) ==
  /\ pc[i] = "rm"
  /\ log' = Logged(i, <<[e |-> "removed", dir |-> tempDir[i]]>>)
  /\ Finish(i, held[i])
  /\ UNCHANGED <<program, load, served, dirs, files, req, child, cmd>>

\* an fs.rm whose promise never settles
RmOkNeverSettles(i) ==
  /\ pc[i] = "rm"
  /\ pc' = [pc EXCEPT ![i] = "stuck"]
  /\ UNCHANGED <<program, load, dirs, files, served, req, step, tempDir, filePath, child,
                 cmd, held, compileData, result, log>>

\* fs.rm resolves: the directory and everything below it is gone
RmOk(i) ==
  /\ pc[i] = "rm"
  /\ dirs' = dirs \ {tempDir[i]}
  /\ files' = WithoutTree(files, DirPath(tempDir[i]))
  /\ log' = Logged(i, <<[e |-> "removed", dir |-> tempDir[i]]>>)
  /\ Finish(i, held[i])
  /\ UNCHANGED <<program, load, served, req, child, cmd>>

\* a cleanupTempDir that lets the rejection of fs.rm through
RmFailPropagates(i) ==
  /\ pc[i] = "rm"
  /\ log' = Logged(i, <<[e |-> "rmfail", dir |-> tempDir[i]]>>)
  /\ Finish(i, Thrown)
  /\ UNCHANGED <<program, load, served, dirs, files, req, child, cmd>>

\* fs.rm rejects; the catch of cleanupTempDir ignores it
RmFail(i) ==
  /\ pc[i] = "rm"
  /\ log' = Logged(i, <<[e |-> "rmfail", dir |-> tempDir[i]]>>)
  /\ Finish(i, held[i])
  /\ UNCHANGED <<program, load, served, dirs, files, req, child, cmd>>

\* the caller has its answer; the slot is free for the next request
Reset(i) ==
  /\ pc[i] = "done"
  /\ \A s \in Steps : child[i][s].st \in {"none", "end"}
  /\ pc' = [pc EXCEPT ![i] = "idle"]
  /\ req' = [req EXCEPT ![i] = NoReq]
  /\ step' = [step EXCEPT ![i] = "none"]
  /\ child' = [child EXCEPT ![i] = [s \in Steps |-> NoChild]]
  /\ cmd' = [cmd EXCEPT ![i] = [s \in Steps |-> NoCmd]]
  /\ compileData' = [compileData EXCEPT ![i] = JUndef]
  /\ result' = [result EXCEPT ![i] = JUndef]
  /\ log' = [log EXCEPT ![i] = << >>]
  /\ UNCHANGED <<program, load, served, dirs, files, tempDir, filePath, held>>

Next ==
  \E i \in Inv :
    \/ Start(i)
    \/ MkdtempOk(i)
    \/ MkdtempFail(i)
    \/ WriteFileFail(i)
    \/ WriteThenSpawn(i)
    \/ WriteThenSpawnError(i)
    \/ WriteThenSpawnThrow(i)
    \/ StdoutData(i)
    \/ StderrData(i)
    \/ OnClose(i)
    \/ OnError(i)
    \/ RmOk(i)
    \/ RmFail(i)
    \/ Reset(i)

Spec == Init /\ [][Next]_vars
SpecConcurrent == InitConcurrent /\ [][Next]_vars

\* what the program does by itself: an awaited fs.rm settles, and the
\* continuation runs.  Nothing is assumed of the child: it may never write,
\* never end.
Fairness == \A i \in Inv : WF_vars(RmOk(i) \/ RmFail(i))
SpecLive == InitPlain /\ [][Next]_vars /\ Fairness

(***************************************************************************)
(* Reading the history of an invocation.                                   *)
(***************************************************************************)
At(i, e) == {k \in 1..Len(log[i]) : log[i][k].e = e}
\* the position that ends the tool invocation position k belongs to: the
\* next mkdtemp of the same request, or the end of the history
StepEndOf(i, k) ==
  LET later == {m \in At(i, "mkdtemp") : m > k}
  IN IF later = {} THEN Len(log[i]) + 1
     ELSE CHOOSE m \in later : \A n \in later : m <= n
\* the directory fs.mkdtemp made for the tool invocation of position k
DirOf(i, k) ==
  LET earlier == {m \in At(i, "mkdtemp") : m <= k}
  IN log[i][CHOOSE m \in earlier : \A n \in earlier : n <= m].dir
\* the tool invocation of position k is over
StepOver(i, k) == StepEndOf(i, k) <= Len(log[i]) \/ pc[i] = "done"
CleanupsOf(i, k) == {m \in At(i, "cleanup") : k < m /\ m < StepEndOf(i, k)}
RemovalsOf(i, k) ==
  {m \in At(i, "removed") \cup At(i, "rmfail") : k < m /\ m < StepEndOf(i, k)}

\* the reply of a finished request is a result (not a failure, not a 4xx/5xx)
HasResult(i) ==
  pc[i] = "done" /\ result[i].t \in {"return", "response"} /\ result[i].status \in {0, 200}

(***************************************************************************)
(* C1: every tool invocation (compile or audit) whose createTempFile       *)
(* succeeded calls cleanupTempDir exactly once, on its own directory, on   *)
(* every way out of the try block: never twice, and once when it is over.  *)
(***************************************************************************)
C1_CleanupOncePerAcquire ==
  \A i \in Inv :
    /\ \A k \in At(i, "staged") :
         /\ Cardinality(CleanupsOf(i, k)) <= 1
         /\ StepOver(i, k) => Cardinality(CleanupsOf(i, k)) = 1
         /\ \A m \in CleanupsOf(i, k) : log[i][m].dir = DirOf(i, k)
    /\ \A m \in At(i, "cleanup") :
         \E k \in At(i, "staged") : m \in CleanupsOf(i, k)

\* a finished request whose runCommand was rejected after the file was
\* staged, and one cleanup was logged
C1_Witness ==
  \E i \in Inv :
    /\ pc[i] = "done"
    /\ \E s \in Steps : cmd[i][s].settled = "rejected"
    /\ At(i, "staged") # {}
    /\ Cardinality(At(i, "cleanup")) = 1

(***************************************************************************)
(* C2: when a request is over, every directory it created has been removed *)
(* or its removal was attempted and failed.                                *)
(***************************************************************************)
C2_CreatedDirsRemoved ==
  \A i \in Inv :
    pc[i] = "done" =>
      \A k \in At(i, "mkdtemp") : RemovalsOf(i, k) # {}

(***************************************************************************)
(* C3: for every filename, the staged file lies inside the directory the   *)
(* tool invocation created.                                                *)
(***************************************************************************)
C3_StagedInsideWorkspace ==
  \A i \in Inv :
    \A k \in At(i, "staged") : Inside(DirPath(DirOf(i, k)), log[i][k].path)

(***************************************************************************)
(* C4: two requests that both have a staged file and a tool still to      *)
(* finish use different directories and different staged files, and the    *)
(* staged file of each exists.                                             *)
(***************************************************************************)
Live(i) == pc[i] = "running"

C4_WorkspacesDisjoint ==
  \A i \in Inv :
    Live(i) =>
      /\ filePath[i] \in DOMAIN files
      /\ \A j \in Inv \ {i} :
           Live(j) => tempDir[i] # tempDir[j] /\ filePath[i] # filePath[j]

(***************************************************************************)
(* C5: the success of every compile result equals (exitCode == 0) of the   *)
(* compiler, whatever stdout and stderr hold.                              *)
(***************************************************************************)
CompileStepOf(i) ==
  IF req[i].op = "workflow" THEN Get(result[i].v, "compile_step") ELSE result[i].v

C5_CompileSuccessIsExitZero ==
  \A i \in Inv :
    /\ (pc[i] = "rm" /\ step[i] = "compile" /\ held[i] # Thrown) =>
         held[i].v.success = JBool(ExitIsZero(cmd[i]["compile"].value.exitCode))
    /\ (HasResult(i) /\ req[i].op \in {"compile", "workflow"}
          /\ cmd[i]["compile"].settled = "resolved") =>
         Get(CompileStepOf(i), "success") =
           JBool(ExitIsZero(cmd[i]["compile"].value.exitCode))

\* a compile result with success true although stdout was no JSON
C5_Witness ==
  \E i \in Inv :
    /\ HasResult(i) /\ req[i].op = "compile"
    /\ cmd[i]["compile"].value.stdout = OutGarbage
    /\ Get(result[i].v, "success") = JBool(TRUE)
    /\ JStr(FailedCompileText) \in {result[i].v.v.errors.v[k] :
                                      k \in 1..Len(result[i].v.v.errors.v)}

(***************************************************************************)
(* Audit results: the result object of an audit step, while finally runs   *)
(* and in the reply of an audit request.                                   *)
(***************************************************************************)
\* <<i, r>>: the audit step of request i has built the result object r
AuditResultsBuilt ==
  {<<i, JObj(held[i].v)>> : i \in {j \in Inv : pc[j] = "rm" /\ step[j] = "audit" /\ held[j] # Thrown}}
  \cup {<<i, result[i].v>> : i \in {j \in Inv : HasResult(j) /\ req[j].op = "audit"}}
  \cup {<<i, Get(result[i].v, "audit_step")>> :
          i \in {j \in Inv : HasResult(j) /\ req[j].op = "workflow"
                               /\ cmd[j]["audit"].settled = "resolved"}}

Elements(arr) == {arr.v[k] : k \in 1..Len(arr.v)}

(***************************************************************************)
(* C6: the success of an audit result is true whenever stdout parses as    *)
(* JSON, for every exit code and every JSON value.                         *)
(***************************************************************************)
C6_AuditSuccessWhenJson ==
  \A x \in AuditResultsBuilt :
    JSONParse(cmd[x[1]]["audit"].value.stdout) # Thrown =>
      Get(x[2], "success") = JBool(TRUE)

(***************************************************************************)
(* C7 as claimed: whenever stdout does not parse as JSON, errors holds the *)
(* parse-failure text and success equals (exitCode == 0).                  *)
(***************************************************************************)
C7_ParseFailureReported ==
  \A x \in AuditResultsBuilt :
    LET pr == cmd[x[1]]["audit"].value
    IN JSONParse(pr.stdout) = Thrown =>
         /\ JStr(FailedSlitherText) \in Elements(Get(x[2], "errors"))
         /\ Get(x[2], "success") = JBool(ExitIsZero(pr.exitCode))

(***************************************************************************)
(* C7 as amended: whenever stdout is not empty and does not parse as JSON, *)
(* errors holds the parse-failure text and success equals (exitCode == 0). *)
(***************************************************************************)
C7_NonEmptyParseFailureReported ==
  \A x \in AuditResultsBuilt :
    LET pr == cmd[x[1]]["audit"].value
    IN (pr.stdout # EmptyText /\ JSONParse(pr.stdout) = Thrown) =>
         /\ JStr(FailedSlitherText) \in Elements(Get(x[2], "errors"))
         /\ Get(x[2], "success") = JBool(ExitIsZero(pr.exitCode))

\* an audit reply for stdout that is no JSON and exit code 0: the text is
\* reported and success is true
C7_Witness ==
  \E i \in Inv :
    /\ HasResult(i) /\ req[i].op = "audit"
    /\ cmd[i]["audit"].value.stdout = OutGarbage
    /\ ExitIsZero(cmd[i]["audit"].value.exitCode)
    /\ JStr(FailedSlitherText) \in Elements(Get(result[i].v, "errors"))
    /\ Get(result[i].v, "success") = JBool(TRUE)

(***************************************************************************)
(* C8: in a workflow whose compile step reports success = false, slither   *)
(* is never spawned, no second directory is created, the audit step is the *)
(* skip marker and the overall success is false.                           *)
(***************************************************************************)
C8_ShortCircuit ==
  \A i \in Inv :
    (req[i].op = "workflow" /\ compileData[i] # JUndef
       /\ Get(compileData[i], "success") = JBool(FALSE)) =>
      /\ \A k \in At(i, "spawn") : log[i][k].tool # "slither"
      /\ Cardinality(At(i, "mkdtemp")) <= 1
      /\ pc[i] = "done"
      /\ Get(result[i].v, "audit_step") = SkipMarker
      /\ Get(result[i].v, "overall_success") = JBool(FALSE)

\* a finished workflow whose compiler ran and exited with a code other
\* than 0
C8_Witness ==
  \E i \in Inv :
    /\ HasResult(i) /\ req[i].op = "workflow"
    /\ cmd[i]["compile"].settled = "resolved"
    /\ ~ExitIsZero(cmd[i]["compile"].value.exitCode)
    /\ Get(compileData[i], "success") = JBool(FALSE)
    /\ Get(result[i].v, "audit_step") = SkipMarker

(***************************************************************************)
(* C9: every workflow result carries a boolean overall success equal to    *)
(* (compile success and audit success), and its audit step is the skip     *)
(* marker exactly when the compile step's success is false (a compile step *)
(* without a success field is read as not successful).                     *)
(***************************************************************************)
C9_OverallSuccessIsConjunction ==
  \A i \in Inv :
    (HasResult(i) /\ req[i].op = "workflow") =>
      LET r == result[i].v
          cs == Get(Get(r, "compile_step"), "success")
          as == Get(Get(r, "audit_step"), "success")
          ov == Get(r, "overall_success")
      IN /\ ov \in {JBool(TRUE), JBool(FALSE)}
         /\ ov = JBool(cs = JBool(TRUE) /\ as = JBool(TRUE))
         /\ (Get(r, "audit_step") = SkipMarker) <=> (cs # JBool(TRUE))

(***************************************************************************)
(* C10: the promise of runCommand is never rejected, and a tool that could *)
(* not be started resolves it with empty stdout, the error message as      *)
(* stderr and a non-zero exit code.                                        *)
(***************************************************************************)
C10_RunCommandNeverRejects ==
  \A i \in Inv : \A s \in Steps :
    /\ cmd[i][s].settled # "rejected"
    /\ (child[i][s].st \in {"failclose", "end"} /\ child[i][s].code = ExitCode(-2)) =>
         /\ cmd[i][s].settled = "resolved"
         /\ cmd[i][s].value.stdout = EmptyText
         /\ cmd[i][s].value.stderr = ErrorText
         /\ ~ExitIsZero(cmd[i][s].value.exitCode)

(***************************************************************************)
(* C11: when the tool of a step cannot be started, the finished request    *)
(* has a result (no exception, no error response) whose success, or        *)
(* overall success for the workflow, is false.                             *)
(***************************************************************************)
\* the tool of step s of request i could not be started: the child emitted
\* 'error', or spawn threw
StartFailed(i, s) ==
  child[i][s].code = ExitCode(-2) \/ cmd[i][s].settled = "rejected"

C11_StartFailureIsResult ==
  \A i \in Inv :
    (pc[i] = "done" /\ \E s \in Steps : StartFailed(i, s)) =>
      /\ HasResult(i)
      /\ Get(result[i].v, IF req[i].op = "workflow" THEN "overall_success"
                          ELSE "success") = JBool(FALSE)

(***************************************************************************)
(* Compile results: the result object of a compile step, while finally     *)
(* runs and in the reply of a compile or workflow request.                 *)
(***************************************************************************)
CompileResultsBuilt ==
  {<<i, JObj(held[i].v)>> : i \in {j \in Inv : pc[j] = "rm" /\ step[j] = "compile" /\ held[j] # Thrown}}
  \cup {<<i, CompileStepOf(i)>> :
          i \in {j \in Inv : HasResult(j) /\ req[j].op \in {"compile", "workflow"}
                               /\ cmd[j]["compile"].settled = "resolved"}}

\* q holds the trimmed lines of L at the positions S, in the order of L
IsInOrder(q, L, S) ==
  /\ Len(q) = Cardinality(S)
  /\ \A k \in S : q[Cardinality({j \in S : j <= k})] = JStr(Trim(L[k]))

(***************************************************************************)
(* C12: of the lines of stderr, errors holds the trimmed non-blank lines   *)
(* with 'Error:' (after the parse-failure text, if that was recorded),     *)
(* warnings holds the trimmed non-blank lines with 'Warning:' and without  *)
(* 'Error:', each in the order of stderr, and no other line is in either.  *)
(***************************************************************************)
C12_Classification ==
  \A x \in CompileResultsBuilt :
    LET L == SplitLines(cmd[x[1]]["compile"].value.stderr)
        E == {k \in 1..Len(L) : Trim(L[k]) # EmptyText /\ Includes(L[k], ErrorMarker)}
        W == {k \in 1..Len(L) : Trim(L[k]) # EmptyText /\ Includes(L[k], WarningMarker)} \ E
        errs == Get(x[2], "errors").v
        warns == Get(x[2], "warnings").v
    IN /\ \/ IsInOrder(errs, L, E)
          \/ /\ errs # << >>
             /\ Head(errs) = JStr(FailedCompileText)
             /\ IsInOrder(Tail(errs), L, E)
       /\ IsInOrder(warns, L, W)
       /\ E \cap W = {}

\* a compile reply for the stderr with a line holding both markers: two
\* errors, the line with both markers first, and one warning
C12_Witness ==
  \E i \in Inv :
    /\ HasResult(i) /\ req[i].op = "compile"
    /\ cmd[i]["compile"].value.stderr = BufferToString(ErrBoth)
    /\ Len(Get(result[i].v, "errors").v) = 2
    /\ Includes(Get(result[i].v, "errors").v[1].v, WarningMarker)
    /\ Len(Get(result[i].v, "warnings").v) = 1

(***************************************************************************)
(* C13: when fs.mkdtemp or fs.writeFile fails in a compile or audit        *)
(* invocation, that invocation spawns no process and ends at once with the *)
(* error: the stdio server fails the request, an HTTP route answers 500    *)
(* with the error (which the HTTP workflow holds as the step's data).      *)
(***************************************************************************)
C13_StagingFailureAborts ==
  \A i \in Inv :
    \A k \in At(i, "ioerror") :
      /\ \A m \in At(i, "spawn") : log[i][m].tool # ToolOf(log[i][k].step)
      /\ k = Len(log[i])
      /\ pc[i] = "done"
      /\ program = "stdio" => result[i] = McpFailure
      /\ (program = "http" /\ req[i].op # "workflow") =>
           (result[i].status = 500 /\ result[i].v = ErrorBody)
      /\ (program = "http" /\ req[i].op = "workflow") =>
           Get(result[i].v, IF log[i][k].step = "compile" THEN "compile_step"
                            ELSE "audit_step") = ErrorBody

\* a workflow of the stdio server whose compile step ran and whose audit
\* step could not stage its file
C13_Witness ==
  \E i \in Inv :
    /\ program = "stdio" /\ req[i].op = "workflow" /\ pc[i] = "done"
    /\ \E k \in At(i, "ioerror") : log[i][k].step = "audit"
    /\ Cardinality(At(i, "spawn")) = 1
    /\ result[i] = McpFailure

(***************************************************************************)
(* C14: in every compile result, contracts is a value other than null only *)
(* if success is true and stdout parsed as a JSON object with a contracts  *)
(* field, whose value it is; when success is true and a non-empty stdout   *)
(* does not parse, errors holds the parse-failure text, contracts is null  *)
(* and success is true.                                                    *)
(***************************************************************************)
C14_ContractsOnlyWhenParsed ==
  \A x \in CompileResultsBuilt :
    LET pr == cmd[x[1]]["compile"].value
        parsed == JSONParse(pr.stdout)
        contracts == Get(x[2], "contracts")
        success == Get(x[2], "success")
    IN /\ ~Nullish(contracts) =>
            /\ success = JBool(TRUE)
            /\ parsed # Thrown /\ parsed.t = "obj"
            /\ "contracts" \in DOMAIN parsed.v
            /\ contracts = parsed.v.contracts
       /\ (ExitIsZero(pr.exitCode) /\ pr.stdout # EmptyText /\ parsed = Thrown) =>
            /\ JStr(FailedCompileText) \in Elements(Get(x[2], "errors"))
            /\ contracts = JNull
            /\ success = JBool(TRUE)

\* a workflow reply whose compiler exited with 0 and wrote no JSON: its
\* compile step has success true, contracts null and the parse-failure text
C14_Witness ==
  \E i \in Inv :
    /\ HasResult(i) /\ req[i].op = "workflow"
    /\ cmd[i]["compile"].value.stdout = OutGarbage
    /\ ExitIsZero(cmd[i]["compile"].value.exitCode)
    /\ Get(CompileStepOf(i), "contracts") = JNull
    /\ Get(CompileStepOf(i), "success") = JBool(TRUE)
    /\ JStr(FailedCompileText) \in Elements(Get(CompileStepOf(i), "errors"))

(***************************************************************************)
(* C15: in every audit result whose findings is a list, the summary's      *)
(* total equals the number of its entries and the sum of the per-severity  *)
(* counts, each finding counted once under its impact, or under 'unknown'  *)
(* when it has none.  (A result without findings and with an empty summary *)
(* is let pass here.)                                                      *)
(***************************************************************************)
\* the severity a finding is to be counted under
SeverityOf(finding) ==
  IF finding.t = "obj" /\ "impact" \in DOMAIN finding.v /\ Truthy(finding.v.impact)
  THEN finding.v.impact.v ELSE Unknown

RECURSIVE SumOfCounts(_, _)
SumOfCounts(breakdown, keys) ==
  IF keys = {} THEN 0
  ELSE LET k == CHOOSE j \in keys : TRUE
       IN breakdown[k].v + SumOfCounts(breakdown, keys \ {k})

C15_SummaryCountsFindings ==
  \A x \in AuditResultsBuilt :
    LET f == Get(x[2], "findings")
        summary == Get(x[2], "summary")
        total == Get(summary, "total_findings")
        breakdown == Get(summary, "severity_breakdown")
    IN f.t = "arr" =>
       \/ (f.v = << >> /\ summary = JObj(EmptyObject))
       \/ /\ total = JNum(Len(f.v))
          /\ breakdown.t = "obj"
          /\ \A k \in DOMAIN breakdown.v :
               breakdown.v[k] =
                 JNum(Cardinality({j \in 1..Len(f.v) : SeverityOf(f.v[j]) = k}))
          /\ SumOfCounts(breakdown.v, DOMAIN breakdown.v) = Len(f.v)

(***************************************************************************)
(* C16: two finished compile requests with the same code and filename,     *)
(* whose compiler gave the same stdout, stderr and exit code, have the     *)
(* same reply, and no directory either of them created exists any more     *)
(* (a directory whose removal was attempted and failed is let pass here).  *)
(***************************************************************************)
C16_CompileIdempotent ==
  \A i \in Inv : \A j \in Inv \ {i} :
    (/\ pc[i] = "done" /\ pc[j] = "done"
     /\ req[i].op = "compile" /\ req[i].code # JUndef /\ req[j] = req[i]
     /\ cmd[i]["compile"].settled = cmd[j]["compile"].settled
     /\ cmd[i]["compile"].value = cmd[j]["compile"].value) =>
      /\ (HasResult(i) /\ HasResult(j)) => result[i] = result[j]
      /\ \A k \in At(i, "mkdtemp") :
           log[i][k].dir \in dirs =>
             \E n \in Inv : \E m \in At(n, "rmfail") \cup At(n, "mkdtemp") :
               /\ log[n][m].dir = log[i][k].dir
               /\ log[n][m].e = "mkdtemp" => (pc[n] # "done" /\ n # i)

(***************************************************************************)
(* C17: in the history of a request every event follows the one the code   *)
(* puts before it: staged after mkdtemp, spawn after staged, exit after    *)
(* spawn, cleanup after exit (or after a spawn that threw), removal after  *)
(* cleanup; while a child runs its invocation waits with its directory in  *)
(* place, and the caller has a reply only when nothing is left to do.      *)
(***************************************************************************)
Before(i, k) == IF k > 1 THEN log[i][k - 1] ELSE [e |-> "none"]

C17_StepsInOrder ==
  \A i \in Inv :
    /\ \A k \in At(i, "staged") : Before(i, k).e = "mkdtemp"
    /\ \A k \in At(i, "spawn") : Before(i, k).e = "staged"
    /\ \A k \in At(i, "exit") :
         Before(i, k).e = "spawn" /\ Before(i, k).tool = log[i][k].tool
    /\ \A k \in At(i, "cleanup") :
         /\ Before(i, k).e \in {"exit", "spawn"}
         /\ log[i][k].dir = DirOf(i, k)
    /\ \A k \in At(i, "removed") \cup At(i, "rmfail") :
         Before(i, k).e = "cleanup" /\ Before(i, k).dir = log[i][k].dir
    /\ \A s \in Steps :
         child[i][s].st = "run" =>
           /\ pc[i] = "running" /\ step[i] = s
           /\ tempDir[i] \in dirs
           /\ log[i][Len(log[i])].e = "spawn"
    /\ result[i] # JUndef =>
         /\ pc[i] = "done"
         /\ log[i] # << >> =>
              log[i][Len(log[i])].e \in {"removed", "rmfail", "ioerror"}

\* a compile request that went through all the steps and has its reply
C17_Witness ==
  \E i \in Inv :
    /\ HasResult(i) /\ req[i].op = "compile"
    /\ Len(log[i]) = 6
    /\ [k \in 1..6 |-> log[i][k].e] =
         <<"mkdtemp", "staged", "spawn", "exit", "cleanup", "removed">>

(***************************************************************************)
(* C18: once the promise of runCommand is settled, neither its state nor   *)
(* its value changes for the rest of the request; for a child that emitted *)
(* 'error' and then 'close', the value is the one 'error' resolved with.   *)
(***************************************************************************)
C18_OneResult ==
  [][\A i \in Inv : \A s \in Steps :
       /\ (cmd[i][s].settled # "no" /\ ~(pc[i] = "done" /\ pc'[i] = "idle")) =>
            /\ cmd'[i][s].settled = cmd[i][s].settled
            /\ cmd'[i][s].value = cmd[i][s].value
       /\ (child[i][s].st = "failclose" /\ child'[i][s].st = "end") =>
            /\ cmd'[i][s].settled = "resolved"
            /\ cmd'[i][s].value = ErrorValue(ErrorText)]_vars

\* 'error' and then 'close' have fired for the child of a request that has
\* its reply, and the value is the one of 'error'
C18_Witness ==
  \E i \in Inv : \E s \in Steps :
    /\ pc[i] = "done"
    /\ child[i][s].st = "end" /\ child[i][s].code = ExitCode(-2)
    /\ cmd[i][s].value = ErrorValue(ErrorText)

(***************************************************************************)
(* C19: for a child that runs and ends, what runCommand has accumulated    *)
(* for a stream, followed by the bytes of that stream not yet delivered,   *)
(* is the text the child writes to that stream; after 'close' the result   *)
(* holds the accumulated texts and the exit code.                          *)
(***************************************************************************)
C19_StreamsConcatenated ==
  \A i \in Inv : \A s \in Steps :
    (child[i][s].st \in {"run", "end"} /\ child[i][s].code # ExitCode(-2)) =>
      /\ cmd[i][s].stdout \o BufferToString(Concat(child[i][s].out))
            \in {BufferToString(t) : t \in OutTexts(ToolOf(s))}
      /\ cmd[i][s].stderr \o BufferToString(Concat(child[i][s].err))
            \in {BufferToString(t) : t \in ErrTexts(ToolOf(s))}
      /\ child[i][s].st = "end" =>
           cmd[i][s].value =
             ProcessResult(cmd[i][s].stdout, cmd[i][s].stderr, child[i][s].code)

(***************************************************************************)
(* C20: while the child of an invocation runs, the invocation waits: no    *)
(* reply, its directory in place, and the only way on is an event of the   *)
(* child ('close' or 'error'); once the child has ended or failed to       *)
(* start, the cleanup completes and the invocation returns.                *)
(***************************************************************************)
C20_ReturnsIffToolEnds ==
  /\ [](\A i \in Inv : \A s \in Steps :
         child[i][s].st \in {"run", "fail"} =>
           (pc[i] = "running" /\ result[i] = JUndef /\ tempDir[i] \in dirs))
  /\ [][\A i \in Inv :
         (pc[i] = "running" /\ pc'[i] # "running") =>
           \E s \in Steps : /\ child[i][s].st \in {"run", "fail"}
                            /\ child'[i][s].st \in {"end", "failclose"}]_vars
  /\ \A i \in Inv :
       (pc[i] = "rm") ~>
         (pc[i] # "rm" /\ Cardinality(At(i, "removed") \cup At(i, "rmfail"))
                           = Cardinality(At(i, "cleanup")))
  /\ \A i \in Inv :
       (pc[i] = "rm" /\ (req[i].op # "workflow" \/ step[i] = "audit")) ~>
         (pc[i] = "done" /\ result[i] # JUndef)

\* an audit request whose analyzer ended: the directory is gone and the
\* reply is there
C20_Witness ==
  \E i \in Inv :
    /\ req[i].op = "audit" /\ pc[i] = "done" /\ result[i] # JUndef
    /\ child[i]["audit"].st = "end"
    /\ At(i, "exit") # {} /\ At(i, "removed") # {}
    /\ dirs = {}

(***************************************************************************)
(* The directories fs.mkdtemp made for a request.                          *)
(***************************************************************************)
DirsOf(i) == {log[i][k].dir : k \in At(i, "mkdtemp")}
\* those whose removal was attempted and failed
UnremovableOf(i) == {log[i][k].dir : k \in At(i, "rmfail")}

(***************************************************************************)
(* C21 as claimed: a workflow makes at most two directories, one by each   *)
(* step's own call of createTempFile; the second is made only after the    *)
(* cleanup of the first has completed; each step cleans up the directory   *)
(* it made; and at most one directory of the workflow exists at a time.    *)
(***************************************************************************)
C21_OneWorkspaceAtATime ==
  \A i \in Inv :
    req[i].op = "workflow" =>
      /\ Cardinality(At(i, "mkdtemp")) <= 2
      /\ \A k \in At(i, "mkdtemp") :
           k > 1 => Before(i, k).e \in {"removed", "rmfail"}
      /\ \A k \in At(i, "cleanup") \cup At(i, "removed") \cup At(i, "rmfail") :
           log[i][k].dir = DirOf(i, k)
      /\ Cardinality(DirsOf(i) \cap dirs) <= 1

(***************************************************************************)
(* C21 as amended: the same, with at most one directory of the workflow    *)
(* existing at a time among those whose removal did not fail; a directory  *)
(* that fs.rm could not remove stays, next to the directory of the audit.  *)
(***************************************************************************)
C21_OneWorkspaceUnlessRemovalFailed ==
  \A i \in Inv :
    req[i].op = "workflow" =>
      /\ Cardinality(At(i, "mkdtemp")) <= 2
      /\ \A k \in At(i, "mkdtemp") :
           k > 1 => Before(i, k).e \in {"removed", "rmfail"}
      /\ \A k \in At(i, "cleanup") \cup At(i, "removed") \cup At(i, "rmfail") :
           log[i][k].dir = DirOf(i, k)
      /\ Cardinality((DirsOf(i) \cap dirs) \ UnremovableOf(i)) <= 1
      /\ Cardinality(DirsOf(i) \cap dirs) = 2 => Cardinality(DirsOf(i)) = 2

\* a workflow whose audit runs in its own directory after the directory of
\* the compile step was removed
C21_Witness ==
  \E i \in Inv :
    /\ req[i].op = "workflow" /\ pc[i] = "running" /\ step[i] = "audit"
    /\ Cardinality(At(i, "mkdtemp")) = 2
    /\ Cardinality(At(i, "removed")) = 1
    /\ DirsOf(i) \cap dirs = {tempDir[i]}

(***************************************************************************)
(* C22: no request spawns a tool twice, a compile request spawns no        *)
(* analyzer and an audit request no compiler; once the file of a step is   *)
(* staged its tool has been spawned exactly once, whatever the tool does.  *)
(***************************************************************************)
SpawnsOf(i, tool) == {k \in At(i, "spawn") : log[i][k].tool = tool}

C22_NoRetry ==
  \A i \in Inv :
    /\ Cardinality(SpawnsOf(i, "solc")) <= 1
    /\ Cardinality(SpawnsOf(i, "slither")) <= 1
    /\ req[i].op = "compile" => SpawnsOf(i, "slither") = {}
    /\ req[i].op = "audit" => SpawnsOf(i, "solc") = {}
    /\ At(i, "staged") # {} =>
         Cardinality(SpawnsOf(i, ToolOf(StepsOf(req[i].op)))) = 1
    /\ Cardinality(At(i, "staged")) = 2 => Cardinality(SpawnsOf(i, "slither")) = 1

\* a finished workflow whose compiler exited with 0 and whose analyzer
\* exited with a code other than 0: one spawn of each
C22_Witness ==
  \E i \in Inv :
    /\ req[i].op = "workflow" /\ pc[i] = "done"
    /\ cmd[i]["audit"].settled = "resolved"
    /\ ~ExitIsZero(cmd[i]["audit"].value.exitCode)
    /\ Cardinality(SpawnsOf(i, "solc")) = 1
    /\ Cardinality(SpawnsOf(i, "slither")) = 1

(***************************************************************************)
(* C23: the reply of a finished request is fixed by what runCommand gave,  *)
(* whether fs.rm succeeded or failed: the result object built from the     *)
(* resolved value, or the failure of a rejected runCommand.                *)
(***************************************************************************)
\* the result object of step s of request i for the value runCommand
\* resolved with
ExpectedStep(i, s) ==
  LET pr == cmd[i][s].value
      lastKey == IF program = "stdio" THEN "raw_output" ELSE "filename"
      lastVal == IF program = "stdio" THEN JStr(pr.stdout)
                 ELSE JStr(FilenameOf(req[i]))
  IN JSONStringify(IF s = "compile" THEN CompileResult(pr, lastKey, lastVal)
                   ELSE AuditResult(pr, lastKey, lastVal))

C23_RemovalFailureAbsorbed ==
  \A i \in Inv :
    pc[i] = "done" =>
      /\ \A s \in Steps :
           (req[i].op = s /\ cmd[i][s].settled = "resolved") =>
             (HasResult(i) /\ result[i].v = ExpectedStep(i, s))
      /\ \A s \in Steps :
           (req[i].op = "workflow" /\ cmd[i][s].settled = "resolved") =>
             \/ /\ HasResult(i)
                /\ Get(result[i].v, IF s = "compile" THEN "compile_step" ELSE "audit_step")
                     = ExpectedStep(i, s)
             \* the audit step of the stdio workflow failed with an exception
             \/ /\ program = "stdio" /\ s = "compile" /\ result[i] = McpFailure
                /\ At(i, "ioerror") # {} \/ cmd[i]["audit"].settled = "rejected"
      /\ (\E s \in Steps : cmd[i][s].settled = "rejected") =>
           IF program = "stdio" THEN result[i] = McpFailure
           ELSE IF req[i].op = "workflow"
           THEN ErrorBody \in {Get(result[i].v, "compile_step"), Get(result[i].v, "audit_step")}
           ELSE result[i].status = 500 /\ result[i].v = ErrorBody

\* a compile request whose directory could not be removed has the result
\* of its compiler run
C23_Witness ==
  \E i \in Inv :
    /\ pc[i] = "done" /\ req[i].op = "compile"
    /\ At(i, "rmfail") # {}
    /\ DirsOf(i) \cap dirs # {}
    /\ cmd[i]["compile"].settled = "resolved"
    /\ result[i].v = ExpectedStep(i, "compile")

(***************************************************************************)
(* C24 as claimed: in an audit result the trimmed stderr is in errors      *)
(* exactly when stderr is not empty and a parse of stdout was attempted    *)
(* and failed (stdout is no JSON, or JSON without readable results).       *)
(***************************************************************************)
\* stdout is not empty and gave no JSON value whose results can be read
AuditParseFailed(pr) ==
  /\ pr.stdout # EmptyText
  /\ (JSONParse(pr.stdout) = Thrown \/ Nullish(JSONParse(pr.stdout)))

C24_StderrOnlyAfterFailedParse ==
  \A x \in AuditResultsBuilt :
    LET pr == cmd[x[1]]["audit"].value
    IN (JStr(Trim(pr.stderr)) \in Elements(Get(x[2], "errors")))
         <=> (pr.stderr # EmptyText /\ AuditParseFailed(pr))

(***************************************************************************)
(* C24 as amended: the trimmed stderr is in errors exactly when stderr is  *)
(* not empty and stdout is empty or its parse failed.                      *)
(***************************************************************************)
C24_StderrUnlessParsed ==
  \A x \in AuditResultsBuilt :
    LET pr == cmd[x[1]]["audit"].value
    IN (JStr(Trim(pr.stderr)) \in Elements(Get(x[2], "errors")))
         <=> (pr.stderr # EmptyText /\ (pr.stdout = EmptyText \/ AuditParseFailed(pr)))

\* an audit reply for an analyzer that wrote nothing to stdout and
\* diagnostics to stderr: errors is the trimmed stderr alone
C24_Witness ==
  \E i \in Inv :
    /\ HasResult(i) /\ req[i].op = "audit"
    /\ cmd[i]["audit"].value.stdout = EmptyText
    /\ cmd[i]["audit"].value.stderr = ErrDiag
    /\ Get(result[i].v, "errors") = JArr(<<JStr(Trim(ErrDiag))>>)

(***************************************************************************)
(* C25: an audit result whose errors holds the parse-failure text has no   *)
(* findings and a success equal to (exitCode == 0).                        *)
(***************************************************************************)
C25_ParseFailureMeansNoFindings ==
  \A x \in AuditResultsBuilt :
    JStr(FailedSlitherText) \in Elements(Get(x[2], "errors")) =>
      /\ Get(x[2], "findings") = JArr(<< >>)
      /\ Get(x[2], "success") = JBool(ExitIsZero(cmd[x[1]]["audit"].value.exitCode))

(***************************************************************************)
(* C26: a call of a tool the server does not have fails with the error     *)
(* code MethodNotFound, makes no directory and spawns nothing.             *)
(***************************************************************************)
C26_UnknownToolIsMethodNotFound ==
  \A i \in Inv :
    (req[i].op = "unknown" /\ pc[i] = "done") =>
      /\ result[i] = MethodNotFound
      /\ log[i] = << >>
      /\ \A s \in Steps : child[i][s].st = "none"

====
